---- MODULE Spec2Model ----
(***************************************************************************)
(* Model of src/config.rs of the B compiler: the Issue taxonomy and its    *)
(* Display implementation, the target platform resolver, CompilerOptions   *)
(* and the three table builders.                                           *)
(*                                                                         *)
(* The program state is the host configuration the crate was compiled for  *)
(* (the cfg predicates read by cfg!), the process's standard output, and   *)
(* the last call made into the module together with the value it returned. *)
(* Characters are code points and the Strings built by format!/to_string   *)
(* from characters are sequences of code points; identifiers that the code *)
(* only copies (&str -> String) are TLA+ strings.                          *)
(***************************************************************************)
EXTENDS Integers, Sequences, FiniteSets, TLC

(* ------------------------------ bounds -------------------------------- *)

\* calls into the module made by one run
MaxCalls == 3
\* target_os values set at once (rustc --cfg can add to the target's own)
MaxSignals == 2
\* token positions are 0..MaxPos
MaxPos == 1

(* --------------------------- option values ---------------------------- *)

None == <<>>
Some(x) == <<x>>

(* ------------------------- host configuration ------------------------- *)

\* values of target_os the model draws from; "solaris" stands for any value
\* that native() does not test
OsSignals ==
    {"freebsd", "dragonfly", "openbsd", "netbsd", "linux", "windows", "macos", "solaris"}

\* values of target_pointer_width rustc knows
PointerWidths == {16, 32, 64}

VARIABLES target_os, target_pointer_width, stdout, calls, last, panicked

vars == <<target_os, target_pointer_width, stdout, calls, last, panicked>>

(* ------------------------------- Issue -------------------------------- *)

TokenPos == 0..MaxPos
Names == {"x", "main"}
\* AST nodes are opaque payloads
Nodes == {"node1", "node2"}

Issue ==
    [tag : {"BracketNotOpened", "BracketNotClosed"}, pos : TokenPos]
    \cup [tag : {"EmptyTokenStream", "ParsingError"}]
    \cup [tag : {"NameNotDefined"}, name : Names, pos : TokenPos]
    \cup [tag : {"NameRedefined"}, name : Names, curr_def_pos : TokenPos,
          prev_def_pos : {None} \cup {Some(p) : p \in TokenPos}]
    \cup [tag : {"InitVarWithItself"}, node : Nodes, pos : TokenPos]
    \cup [tag : {"StandardNameRedefined", "VecWithNoSizeAndInits", "VecSizeIsNotANumber",
                 "FnBodyIsNullStatement", "EmptyCompound"}, node : Nodes]

\* <Issue as Display>::fmt: the message written to the formatter, or the
\* panic raised by todo!()
Issue_fmt(self) ==
    IF self.tag = "ParsingError"
    THEN [panicked |-> FALSE, written |-> "Failed to parse"]
    ELSE [panicked |-> TRUE, written |-> ""]

(* ----------------------- Arch and PlatformName ------------------------ *)

Arch == {"x86_32", "x86_64"}

Arch_fmt(self) ==
    CASE self = "x86_32" -> "x86-32"
      [] self = "x86_64" -> "x86-64"

PlatformName == {"Linux", "Bsd", "Windows", "MacOs"}

PlatformName_fmt(self) ==
    CASE self = "Linux" -> "Linux"
      [] self = "Bsd" -> "BSD"
      [] self = "Windows" -> "Windows"
      [] self = "MacOs" -> "macOS"

TargetPlatform == [platform_name : PlatformName, arch : Arch]

TargetPlatform_default == [platform_name |-> "Linux", arch |-> "x86_64"]

\* mutant: the default options take the detected platform of the host
CompilerOptions_default_detected ==
    [target_platform |->
        [platform_name |->
             IF "windows" \in target_os THEN "Windows" ELSE TargetPlatform_default.platform_name,
         arch |->
             IF target_pointer_width = 32 THEN "x86_32" ELSE TargetPlatform_default.arch]]

\* #[derive(Default)] on CompilerOptions
CompilerOptions_default == [target_platform |-> TargetPlatform_default]

(* ------------------------ TargetPlatform::native ----------------------- *)

\* cfg!(target_os = name)
cfg_target_os(os, name) == name \in os

\* mutant: target_os = "linux" is tested before the BSD family
native_platform_name_linux_first(os) ==
    IF cfg_target_os(os, "linux")
    THEN [value |-> "Linux", printed |-> <<>>]
    ELSE IF \E n \in {"freebsd", "dragonfly", "openbsd", "netbsd"} : cfg_target_os(os, n)
    THEN [value |-> "Bsd", printed |-> <<>>]
    ELSE IF cfg_target_os(os, "windows")
    THEN [value |-> "Windows", printed |-> <<>>]
    ELSE IF cfg_target_os(os, "macos")
    THEN [value |-> "MacOs", printed |-> <<>>]
    ELSE [value |-> TargetPlatform_default.platform_name,
          printed |-> <<"Failed to determine the native OS. Assuming it's "
                         \o PlatformName_fmt(TargetPlatform_default.platform_name)>>]

\* the platform_name field expression: the value and the lines it prints
native_platform_name(os) ==
    IF \E n \in {"freebsd", "dragonfly", "openbsd", "netbsd"} : cfg_target_os(os, n)
    THEN [value |-> "Bsd", printed |-> <<>>]
    ELSE IF cfg_target_os(os, "linux")
    THEN [value |-> "Linux", printed |-> <<>>]
    ELSE IF cfg_target_os(os, "windows")
    THEN [value |-> "Windows", printed |-> <<>>]
    ELSE IF cfg_target_os(os, "macos")
    THEN [value |-> "MacOs", printed |-> <<>>]
    ELSE LET default_platform == TargetPlatform_default.platform_name
         IN [value |-> default_platform,
             printed |-> <<"Failed to determine the native OS. Assuming it's "
                            \o PlatformName_fmt(default_platform)>>]

\* mutant: the architecture falls back without a warning
native_arch_silent(width) ==
    IF width = 32
    THEN [value |-> "x86_32", printed |-> <<>>]
    ELSE [value |-> "x86_64", printed |-> <<>>]

\* the arch field expression: the value and the lines it prints
native_arch(width) ==
    IF width = 32
    THEN [value |-> "x86_32", printed |-> <<>>]
    ELSE IF width = 64
    THEN [value |-> "x86_64", printed |-> <<>>]
    ELSE LET default_arch == TargetPlatform_default.arch
         IN [value |-> default_arch,
             printed |-> <<"Failed to determine the native architecture. Assuming it's "
                            \o Arch_fmt(default_arch)>>]

\* mutant: an inconclusive signal replaces the whole pair by the default
TargetPlatform_native_wholesale(os, width) ==
    LET p == native_platform_name(os)
        a == native_arch(width)
    IN IF p.printed # <<>> \/ a.printed # <<>>
       THEN [value |-> TargetPlatform_default, printed |-> p.printed \o a.printed]
       ELSE [value |-> [platform_name |-> p.value, arch |-> a.value], printed |-> <<>>]

\* the struct expression evaluates its fields in the order written
TargetPlatform_native(os, width) ==
    LET p == native_platform_name(os)
        a == native_arch(width)
    IN [value |-> [platform_name |-> p.value, arch |-> a.value],
        printed |-> p.printed \o a.printed]

(* --------------------------- HashMap, HashSet -------------------------- *)

\* HashMap::insert: a later value for a key replaces the earlier one
insert(m, k, v) == [x \in DOMAIN m \cup {k} |-> IF x = k THEN v ELSE m[x]]

\* Iterator::collect into a HashMap, from a sequence of <<key, value>> pairs
RECURSIVE collect_map(_)
collect_map(pairs) ==
    IF pairs = <<>>
    THEN <<>>
    ELSE LET n == Len(pairs)
         IN insert(collect_map(SubSeq(pairs, 1, n - 1)), pairs[n][1], pairs[n][2])

\* Iterator::collect into a HashSet, and HashSet::extend
collect_set(s) == {s[i] : i \in 1..Len(s)}

(* ------------------------- get_escape_sequences ------------------------ *)

\* the vec! of (designator, literal) pairs, as code points:
\* '0' NUL, 'e' EOT, '(' '{', ')' '}', 't' TAB, '*' '*', '\'' '\'', '"' '"', 'n' LF
escape_pairs ==
    << <<48, 0>>, <<101, 4>>, <<40, 123>>, <<41, 125>>, <<116, 9>>,
       <<42, 42>>, <<39, 39>>, <<34, 34>>, <<110, 10>> >>

\* mutant: the key is the designator without the escape marker
format_bare(c) == <<c>>

\* format!("*{}", c)
format_star(c) == <<42>> \o <<c>>

\* char::to_string
char_to_string(c) == <<c>>

escape_entry(x) == <<format_star(x[1]), char_to_string(x[2])>>

get_escape_sequences ==
    collect_map([i \in 1..Len(escape_pairs) |-> escape_entry(escape_pairs[i])])

(* ------------------------- get_reserved_symbols ------------------------ *)

DeclarationSpecifier(d) == [role |-> "DeclarationSpecifier", id |-> d]
ControlStatement(c) == [role |-> "ControlStatement", id |-> c]

\* mutant: extrn spelled extern, and the for entry of line 166 enabled
reserved_pairs_extern_for ==
    << <<"auto", DeclarationSpecifier("Auto")>>,
       <<"extern", DeclarationSpecifier("Extrn")>>,
       <<"goto", ControlStatement("Goto")>>,
       <<"switch", ControlStatement("Switch")>>,
       <<"case", ControlStatement("Case")>>,
       <<"return", ControlStatement("Return")>>,
       <<"if", ControlStatement("If")>>,
       <<"else", ControlStatement("Else")>>,
       <<"while", ControlStatement("While")>>,
       <<"break", ControlStatement("Break")>>,
       <<"default", ControlStatement("Default")>>,
       <<"for", ControlStatement("For")>> >>

reserved_pairs ==
    << <<"auto", DeclarationSpecifier("Auto")>>,
       <<"extrn", DeclarationSpecifier("Extrn")>>,
       <<"goto", ControlStatement("Goto")>>,
       <<"switch", ControlStatement("Switch")>>,
       <<"case", ControlStatement("Case")>>,
       <<"return", ControlStatement("Return")>>,
       <<"if", ControlStatement("If")>>,
       <<"else", ControlStatement("Else")>>,
       <<"while", ControlStatement("While")>>,
       <<"break", ControlStatement("Break")>>,
       <<"default", ControlStatement("Default")>> >>

get_reserved_symbols == collect_map(reserved_pairs)

(* ---------------------- get_standard_library_names --------------------- *)

Function(name, len) ==
    [kind |-> "Function", fn_name |-> name, parameter_list_length |-> len]
Variable(name) == [kind |-> "Variable", var_name |-> name]

\* |x| (x.0, Some(x.1))
with_some(x) == <<x[1], Some(x[2])>>

\* .into_iter().map(|x| (x.0, Some(x.1))).collect() into a Vec
with_some_all(s) == [i \in 1..Len(s) |-> with_some(s[i])]

\* mutant: printf is also listed among the routines of fixed arity
io_routines_printf_fixed ==
    LET io_routines_without_printf ==
            with_some_all(
                    << <<"getchar", 0>>, <<"putchar", 1>>, <<"openr", 2>>, <<"openw", 2>>,
                       <<"getstr", 1>>, <<"putstr", 1>>, <<"system", 1>>, <<"close", 1>>,
                       <<"flush", 0>>, <<"reread", 0>>, <<"printf", 1>> >>)
        printf == <<"printf", None>>
    IN Append(io_routines_without_printf, printf)

io_routines ==
    LET io_routines_without_printf ==
            with_some_all(
                    << <<"getchar", 0>>, <<"putchar", 1>>, <<"openr", 2>>, <<"openw", 2>>,
                       <<"getstr", 1>>, <<"putstr", 1>>, <<"system", 1>>, <<"close", 1>>,
                       <<"flush", 0>>, <<"reread", 0>> >>)
        printf == <<"printf", None>>
    IN Append(io_routines_without_printf, printf)

str_manip ==
    Append(with_some_all( << <<"char", 2>>, <<"lchar", 3>>, <<"getarg", 3>> >>),
           <<"concat", None>>)

other_functions ==
    with_some_all(
            << <<"getvec", 1>>, <<"rlsevec", 2>>, <<"nargs", 0>>, <<"exit", 0>> >>)

std_lib_fns ==
    Append(io_routines, <<"ioerrors", Some(1)>>) \o str_manip \o other_functions

\* mutant: the unit variables are entered as functions of unknown arity
std_lib_vars_as_functions ==
    {Function("wr.unit", None), Function("rd.unit", None)}

std_lib_vars ==
    LET names == <<"wr.unit", "rd.unit">>
    IN collect_set([i \in 1..Len(names) |-> Variable(names[i])])

to_function(x) == Function(x[1], x[2])

get_standard_library_names ==
    std_lib_vars
        \cup collect_set([i \in 1..Len(std_lib_fns) |-> to_function(std_lib_fns[i])])

(* ------------------------------ actions ------------------------------- *)

Init ==
    /\ target_os \in {s \in SUBSET OsSignals : Cardinality(s) <= MaxSignals}
    /\ target_pointer_width \in PointerWidths
    /\ stdout = <<>>
    /\ calls = 0
    /\ last = [op |-> "none"]
    /\ panicked = FALSE

CanCall == ~panicked /\ calls < MaxCalls

Native ==
    /\ CanCall
    /\ LET r == TargetPlatform_native(target_os, target_pointer_width)
       IN /\ stdout' = stdout \o r.printed
          /\ last' = [op |-> "native", result |-> r.value]
    /\ calls' = calls + 1
    /\ UNCHANGED <<target_os, target_pointer_width, panicked>>

DefaultOptions ==
    /\ CanCall
    /\ last' = [op |-> "default", result |-> CompilerOptions_default]
    /\ calls' = calls + 1
    /\ UNCHANGED <<target_os, target_pointer_width, stdout, panicked>>

Fmt(issue) ==
    /\ CanCall
    /\ LET r == Issue_fmt(issue)
       IN /\ last' = [op |-> "fmt", arg |-> issue, result |-> r.written]
          /\ panicked' = r.panicked
    /\ calls' = calls + 1
    /\ UNCHANGED <<target_os, target_pointer_width, stdout>>

GetEscapeSequences ==
    /\ CanCall
    /\ last' = [op |-> "get_escape_sequences", result |-> get_escape_sequences]
    /\ calls' = calls + 1
    /\ UNCHANGED <<target_os, target_pointer_width, stdout, panicked>>

GetReservedSymbols ==
    /\ CanCall
    /\ last' = [op |-> "get_reserved_symbols", result |-> get_reserved_symbols]
    /\ calls' = calls + 1
    /\ UNCHANGED <<target_os, target_pointer_width, stdout, panicked>>

GetStandardLibraryNames ==
    /\ CanCall
    /\ last' = [op |-> "get_standard_library_names", result |-> get_standard_library_names]
    /\ calls' = calls + 1
    /\ UNCHANGED <<target_os, target_pointer_width, stdout, panicked>>

Next ==
    \/ Native
    \/ DefaultOptions
    \/ GetEscapeSequences
    \/ GetReservedSymbols
    \/ GetStandardLibraryNames
    \/ \E issue \in Issue : Fmt(issue)

Spec == Init /\ [][Next]_vars

(* ------------------------------- claims -------------------------------- *)

\* C1: every Issue variant, with any payload, renders to a message through
\* Display::fmt without panicking.
C1_EveryVariantRenders ==
    last.op = "fmt" => (~panicked /\ last.result # "")

BsdFamily == {"freebsd", "dragonfly", "openbsd", "netbsd"}
TestedOs == BsdFamily \cup {"linux", "windows", "macos"}

\* the platform a single OS signal stands for, Linux when it is not a tested one
C2_PlatformOf(os) ==
    IF os = {}
    THEN "Linux"
    ELSE LET n == CHOOSE n \in os : TRUE
         IN CASE n \in BsdFamily -> "Bsd"
              [] n = "linux" -> "Linux"
              [] n = "windows" -> "Windows"
              [] n = "macos" -> "MacOs"
              [] OTHER -> "Linux"

C2_ArchOf(width) ==
    CASE width = 32 -> "x86_32"
      [] width = 64 -> "x86_64"
      [] OTHER -> "x86_64"

\* C2: for a host with one OS signal or none and any pointer width, native()
\* returns a fully populated pair whose platform_name is decided by the OS
\* signal alone and whose arch is decided by the pointer width alone; a BSD
\* host with an unrecognized pointer width yields (Bsd, x86_64).
C2_NativeComponentWise ==
    (last.op = "native" /\ Cardinality(target_os) <= 1) =>
        /\ last.result \in TargetPlatform
        /\ last.result.platform_name = C2_PlatformOf(target_os)
        /\ last.result.arch = C2_ArchOf(target_pointer_width)
        /\ (target_os \subseteq BsdFamily /\ target_os # {} /\ target_pointer_width = 16
               => last.result = [platform_name |-> "Bsd", arch |-> "x86_64"])

C2_Witness ==
    /\ last.op = "native"
    /\ target_os = {"freebsd"}
    /\ target_pointer_width = 16
    /\ last.result = [platform_name |-> "Bsd", arch |-> "x86_64"]

\* HashMap::get as the callers of the tables use it
lookup(m, k) == IF k \in DOMAIN m THEN Some(m[k]) ELSE None

C3_Expected ==
    (<<42, 48>> :> <<0>>) @@ (<<42, 101>> :> <<4>>) @@ (<<42, 40>> :> <<123>>)
    @@ (<<42, 41>> :> <<125>>) @@ (<<42, 116>> :> <<9>>) @@ (<<42, 42>> :> <<42>>)
    @@ (<<42, 39>> :> <<39>>) @@ (<<42, 34>> :> <<34>>) @@ (<<42, 110>> :> <<10>>)

\* spellings that are not escape keys: *x, n, *, 0, **n, *N
C3_OtherSpellings ==
    {<<42, 120>>, <<110>>, <<42>>, <<48>>, <<42, 42, 110>>, <<42, 78>>}

\* C3: the escape table has exactly 9 keys, a star followed by one of the
\* designators 0 e ( ) t * ' " n, mapped to NUL, EOT, {, }, TAB, *, ', " and LF,
\* and a lookup of any other spelling finds nothing.
C3_EscapeTable ==
    last.op = "get_escape_sequences" =>
        /\ Cardinality(DOMAIN last.result) = 9
        /\ DOMAIN last.result = DOMAIN C3_Expected
        /\ \A k \in DOMAIN C3_Expected : lookup(last.result, k) = Some(C3_Expected[k])
        /\ \A k \in C3_OtherSpellings : lookup(last.result, k) = None

C3_Witness ==
    /\ last.op = "get_escape_sequences"
    /\ lookup(last.result, <<42, 101>>) = Some(<<4>>)
    /\ lookup(last.result, <<42, 120>>) = None

C4_DeclarationSpecifiers == {<<"auto", "Auto">>, <<"extrn", "Extrn">>}

C4_ControlStatements ==
    {<<"goto", "Goto">>, <<"switch", "Switch">>, <<"case", "Case">>,
     <<"return", "Return">>, <<"if", "If">>, <<"else", "Else">>,
     <<"while", "While">>, <<"break", "Break">>, <<"default", "Default">>}

C4_OtherSpellings == {"foo", "Auto", "for", "extern", "AUTO", "", "auto ", "While"}

\* C4: the reserved table has exactly 11 keys; auto and extrn are declaration
\* specifiers, the nine control words are control statements with the matching
\* identifier, and any other string, compared exactly, is not found.
C4_ReservedTable ==
    last.op = "get_reserved_symbols" =>
        /\ Cardinality(DOMAIN last.result) = 11
        /\ DOMAIN last.result =
               {e[1] : e \in C4_DeclarationSpecifiers \cup C4_ControlStatements}
        /\ \A e \in C4_DeclarationSpecifiers :
               lookup(last.result, e[1]) = Some([role |-> "DeclarationSpecifier", id |-> e[2]])
        /\ \A e \in C4_ControlStatements :
               lookup(last.result, e[1]) = Some([role |-> "ControlStatement", id |-> e[2]])
        /\ \A k \in C4_OtherSpellings : lookup(last.result, k) = None

C4_Witness ==
    /\ last.op = "get_reserved_symbols"
    /\ lookup(last.result, "auto") = Some([role |-> "DeclarationSpecifier", id |-> "Auto"])
    /\ lookup(last.result, "while") = Some([role |-> "ControlStatement", id |-> "While"])
    /\ lookup(last.result, "foo") = None

C5_Functions(set) == {e \in set : e.kind = "Function"}

\* C5: a Function entry has parameter_list_length = None exactly when it is
\* printf or concat; every other function name has exactly one Function entry,
\* of arity Some(n); Function{getchar, Some(0)} and Function{printf, None} are
\* members and Function{printf, Some(1)} is not.
C5_Arity ==
    last.op = "get_standard_library_names" =>
        /\ \A e \in C5_Functions(last.result) :
               /\ (e.parameter_list_length = None) <=> (e.fn_name \in {"printf", "concat"})
               /\ e.fn_name \notin {"printf", "concat"} =>
                      /\ \E n \in 0..8 : e.parameter_list_length = Some(n)
                      /\ Cardinality({d \in C5_Functions(last.result) :
                                         d.fn_name = e.fn_name}) = 1
        /\ \A name \in {"printf", "concat"} :
               \E e \in C5_Functions(last.result) : e.fn_name = name
        /\ [kind |-> "Function", fn_name |-> "getchar", parameter_list_length |-> Some(0)]
               \in last.result
        /\ [kind |-> "Function", fn_name |-> "printf", parameter_list_length |-> None]
               \in last.result
        /\ [kind |-> "Function", fn_name |-> "printf", parameter_list_length |-> Some(1)]
               \notin last.result

C5_Witness ==
    /\ last.op = "get_standard_library_names"
    /\ \E e \in C5_Functions(last.result) :
           e.fn_name = "concat" /\ e.parameter_list_length = None
    /\ \E e \in C5_Functions(last.result) :
           e.fn_name = "lchar" /\ e.parameter_list_length = Some(3)

\* C6: wr.unit and rd.unit are Variable entries, they are the only Variable
\* entries, and no Function entry of any arity has one of these names.
C6_Variables ==
    last.op = "get_standard_library_names" =>
        /\ {e \in last.result : e.kind = "Variable"} =
               {[kind |-> "Variable", var_name |-> "wr.unit"],
                [kind |-> "Variable", var_name |-> "rd.unit"]}
        /\ \A e \in C5_Functions(last.result) : e.fn_name \notin {"wr.unit", "rd.unit"}

C6_Witness ==
    /\ last.op = "get_standard_library_names"
    /\ [kind |-> "Variable", var_name |-> "wr.unit"] \in last.result
    /\ [kind |-> "Variable", var_name |-> "rd.unit"] \in last.result
    /\ C5_Functions(last.result) # {}

\* C7: CompilerOptions::default() yields the target platform (Linux, x86_64)
\* on every host, and native() substitutes the components of this pair when
\* an OS signal or the pointer width is inconclusive.
C7_DefaultOptions ==
    /\ last.op = "default" =>
           last.result = [target_platform |-> [platform_name |-> "Linux", arch |-> "x86_64"]]
    /\ last.op = "native" =>
           /\ target_os \cap TestedOs = {} =>
                  last.result.platform_name = CompilerOptions_default.target_platform.platform_name
           /\ target_pointer_width \notin {32, 64} =>
                  last.result.arch = CompilerOptions_default.target_platform.arch

C7_Witness ==
    /\ last.op = "default"
    /\ target_os = {"windows"}
    /\ target_pointer_width = 32
    /\ last.result.target_platform = [platform_name |-> "Linux", arch |-> "x86_64"]

\* C9: native() tests the BSD family, then linux, then windows, then macos;
\* the first test that holds decides platform_name, also when several signals
\* are set at once, and the default is used only when all four tests fail.
C9_TestOrder ==
    last.op = "native" =>
        LET bsd == target_os \cap BsdFamily # {}
            linux == "linux" \in target_os
            windows == "windows" \in target_os
            macos == "macos" \in target_os
        IN /\ bsd => last.result.platform_name = "Bsd"
           /\ (~bsd /\ linux) => last.result.platform_name = "Linux"
           /\ (~bsd /\ ~linux /\ windows) => last.result.platform_name = "Windows"
           /\ (~bsd /\ ~linux /\ ~windows /\ macos) => last.result.platform_name = "MacOs"
           /\ (~bsd /\ ~linux /\ ~windows /\ ~macos) => last.result.platform_name = "Linux"

C9_Witness ==
    /\ last.op = "native"
    /\ target_os = {"netbsd", "linux"}
    /\ last.result.platform_name = "Bsd"

C10_OsWarning ==
    IF target_os \cap TestedOs = {}
    THEN <<"Failed to determine the native OS. Assuming it's Linux">>
    ELSE <<>>

C10_ArchWarning ==
    IF target_pointer_width \notin {32, 64}
    THEN <<"Failed to determine the native architecture. Assuming it's x86-64">>
    ELSE <<>>

\* C10: a call of native() writes the OS fallback warning exactly when no OS
\* signal matched and the architecture fallback warning exactly when the
\* pointer width is neither 32 nor 64, the OS warning first, each naming the
\* default chosen; the call returns a TargetPlatform and does not fail.
C10_NativeWarnings ==
    [][(calls' = calls + 1 /\ last'.op = "native") =>
          /\ stdout' = stdout \o C10_OsWarning \o C10_ArchWarning
          /\ last'.result \in TargetPlatform
          /\ ~panicked']_vars

C10_Witness ==
    /\ last.op = "native"
    /\ calls = 1
    /\ ~panicked
    /\ stdout = <<"Failed to determine the native OS. Assuming it's Linux",
                  "Failed to determine the native architecture. Assuming it's x86-64">>

====
